---- MODULE Spec2Model ----
(***************************************************************************)
(* Model of projects/_003_ask_your_spreadsheets/index.py: CSV upload into  *)
(* one in-memory SQLite connection (step_1), the schema summary            *)
(* (get_table_schemas_with_data), the query executor                       *)
(* (execute_sql_statement) and the question flow (step_2).                 *)
(*                                                                         *)
(* Python strings are modelled as sequences of one-character strings, so   *)
(* that split, replace, lower and substring tests are computed.            *)
(***************************************************************************)
EXTENDS Naturals, Sequences, FiniteSets, TLC

VARIABLES
    db,         \* the tables of the connection get_sql_connection returns (lines 37-39)
    ss,         \* st.session_state of each session (step, upload_completed, conn, dataframes)
    lastBatch,  \* the uploaded_files of the latest upload step_1 handled (line 95)
    last        \* the latest handler run: stages called, mp.track calls, messages, exception

vars == <<db, ss, lastBatch, last>>

\* Largest number of files the uploader hands to one run of step_1.
MaxBatch == 2

\* The sessions that run the page against the same server process.
Sessions == {"s1", "s2"}

-----------------------------------------------------------------------------
(* String helpers (Python str methods used by the source).                 *)

RECURSIVE FirstDot(_, _)
\* index of the first "." of s at or after i, or Len(s)+1
FirstDot(s, i) ==
    IF i > Len(s) THEN i
    ELSE IF s[i] = "." THEN i
    ELSE FirstDot(s, i + 1)

\* file.name.split('.')[0]
TableNameOf(fname) == SubSeq(fname, 1, FirstDot(fname, 1) - 1)

\* s.replace(' ', '_')
ReplaceSpaces(s) == [i \in DOMAIN s |-> IF s[i] = " " THEN "_" ELSE s[i]]

\* one character of s.lower()
LowerChar(c) ==
    CASE c = "T" -> "t"
      [] c = "E" -> "e"
      [] c = "X" -> "x"
      [] c = "I" -> "i"
      [] c = "N" -> "n"
      [] c = "G" -> "g"
      [] c = "R" -> "r"
      [] c = "A" -> "a"
      [] c = "L" -> "l"
      [] OTHER -> c

\* s.lower()
Lower(s) == [i \in DOMAIN s |-> LowerChar(s[i])]

\* the Python test `sub in s`
Contains(s, sub) ==
    \E i \in 1..(Len(s) + 1) :
        /\ i + Len(sub) - 1 <= Len(s)
        /\ SubSeq(s, i, i + Len(sub) - 1) = sub

TextWord == <<"t", "e", "x", "t">>

\* "text" in column_type.lower()
IsTextType(ctype) == Contains(Lower(ctype), TextWord)

-----------------------------------------------------------------------------
(* SQLite's reading of a table name interpolated, unquoted, into a         *)
(* statement (f"DROP TABLE IF EXISTS {name}", f"SELECT * FROM {name} ..."). *)

IdentChars == {"a", "b", "c", "d", "e", "s", "v", "x", "y", "z", "n", "m", "_"}

IsBareIdent(s) == Len(s) > 0 /\ \A i \in DOMAIN s : s[i] \in IdentChars

IsBracketed(s) ==
    /\ Len(s) >= 3
    /\ s[1] = "["
    /\ s[Len(s)] = "]"
    /\ \A i \in 2..(Len(s) - 1) : s[i] # "]"

\* [ok |-> the statement parses, name |-> the table the identifier denotes]
SqlIdent(s) ==
    IF IsBareIdent(s) THEN [ok |-> TRUE, name |-> s]
    ELSE IF IsBracketed(s) THEN [ok |-> TRUE, name |-> SubSeq(s, 2, Len(s) - 1)]
    ELSE [ok |-> FALSE, name |-> <<>>]

-----------------------------------------------------------------------------
(* The uploaded files the model draws from.                                *)

IntType == <<"I", "N", "T", "E", "G", "E", "R">>
RealType == <<"R", "E", "A", "L">>
TextType == <<"T", "E", "X", "T">>

\* the column type pandas' to_sql declares for a dataframe dtype
SqlTypeOf(dtype) ==
    CASE dtype = "int64" -> IntType
      [] dtype = "float64" -> RealType
      [] OTHER -> TextType

\* a.csv: an integer column and a text column whose header holds a space
FileA ==
    [name |-> <<"a", ".", "c", "s", "v">>, parses |-> TRUE,
     header |-> << <<"x">>, <<"n", " ", "m">> >>,
     dtypes |-> <<"int64", "object">>,
     rows |-> << <<"1", "p">>, <<"2", "q">> >>]

\* a.b.csv: a header line and no data row (pandas gives the column dtype object)
FileAB ==
    [name |-> <<"a", ".", "b", ".", "c", "s", "v">>, parses |-> TRUE,
     header |-> << <<"x">> >>,
     dtypes |-> <<"object">>,
     rows |-> << >>]

\* [a].csv
FileBracket ==
    [name |-> <<"[", "a", "]", ".", "c", "s", "v">>, parses |-> TRUE,
     header |-> << <<"z">> >>,
     dtypes |-> <<"object">>,
     rows |-> << <<"r">> >>]

\* "a b.csv"
FileSpace ==
    [name |-> <<"a", " ", "b", ".", "c", "s", "v">>, parses |-> TRUE,
     header |-> << <<"y">> >>,
     dtypes |-> <<"float64">>,
     rows |-> << <<"3">> >>]

\* e.csv: a file pd.read_csv raises on
FileMalformed ==
    [name |-> <<"e", ".", "c", "s", "v">>, parses |-> FALSE,
     header |-> << >>,
     dtypes |-> << >>,
     rows |-> << >>]

Files == {FileA, FileAB, FileBracket, FileSpace, FileMalformed}

FileByName(n) == CHOOSE f \in Files : f.name = n

\* what st.file_uploader can return: no file, or up to MaxBatch distinct files
Batches ==
    {b \in UNION {[1..n -> Files] : n \in 0..MaxBatch} :
        \A i, j \in DOMAIN b : i # j => b[i] # b[j]}

\* the uploads of the runs with two sessions: no file, or one of two files
SharedBatches == {<<>>, <<FileA>>, <<FileBracket>>}

-----------------------------------------------------------------------------
(* The store: the tables of the one sqlite3 ':memory:' connection, in      *)
(* sqlite_master order (creation order).  src and age are history fields:  *)
(* the file a table was created from (<<>> for a table made by an executed *)
(* statement) and how many uploads ago (0 the current one, 1 the one       *)
(* before, 2 older).                                                       *)

TableNames(d) == {d[i].name : i \in DOMAIN d}

HasTable(d, n) == \E i \in DOMAIN d : d[i].name = n

GetTable(d, n) == d[CHOOSE i \in DOMAIN d : d[i].name = n]

IsNotNamed(t, n) == t.name # n

RECURSIVE WithoutTable(_, _)
\* the store after DROP TABLE n
WithoutTable(d, n) ==
    IF d = <<>> THEN <<>>
    ELSE IF IsNotNamed(Head(d), n) THEN <<Head(d)>> \o WithoutTable(Tail(d), n)
    ELSE WithoutTable(Tail(d), n)

\* cursor.execute(f"DROP TABLE IF EXISTS {table_name[0]}")
DropOne(d, n) ==
    IF SqlIdent(n).ok
    THEN [raised |-> FALSE, db |-> WithoutTable(d, SqlIdent(n).name)]
    ELSE [raised |-> TRUE, db |-> d]

RECURSIVE DropLoop(_, _)
\* the for loop of drop_all_tables over the fetched names
DropLoop(d, names) ==
    IF names = <<>> THEN [raised |-> FALSE, db |-> d]
    ELSE LET r == DropOne(d, Head(names))
         IN IF r.raised THEN r ELSE DropLoop(r.db, Tail(names))

\* SELECT name FROM sqlite_master WHERE type='table'; fetchall()
MasterNames(d) == [i \in DOMAIN d |-> d[i].name]

drop_all_tables(d) == DropLoop(d, MasterNames(d))

\* df.columns = [col.replace(' ', '_') for col in df.columns]
NormalizedColumns(f) == [i \in DOMAIN f.header |-> ReplaceSpaces(f.header[i])]

\* pd.read_csv(file) followed by the renaming of the columns
DataFrameOf(f) == [columns |-> NormalizedColumns(f), rows |-> f.rows]

NewTable(f) ==
    [name |-> TableNameOf(f.name),
     cols |-> [i \in DOMAIN f.header |->
                 [name |-> NormalizedColumns(f)[i], type |-> SqlTypeOf(f.dtypes[i])]],
     rows |-> f.rows,
     src |-> f.name,
     age |-> 0]

\* df.to_sql with if_exists='replace'
ToSqlReplace(d, f) ==
    [raised |-> FALSE, db |-> Append(WithoutTable(d, TableNameOf(f.name)), NewTable(f))]

\* df.to_sql(table_name, conn, index=False): if_exists defaults to 'fail'
ToSql(d, f) ==
    IF HasTable(d, TableNameOf(f.name))
    THEN [raised |-> TRUE, db |-> d]
    ELSE [raised |-> FALSE, db |-> Append(d, NewTable(f))]

RECURSIVE LoadLoop(_, _, _)
\* the for loop of step_1 over uploaded_files; dfs is the local `dataframes`
LoadLoop(d, dfs, files) ==
    IF files = <<>> THEN [raised |-> FALSE, db |-> d, dataframes |-> dfs]
    ELSE LET f == Head(files)
         IN IF ~f.parses THEN [raised |-> TRUE, db |-> d, dataframes |-> dfs]
            ELSE LET dfs2 == [k \in (DOMAIN dfs) \cup {f.name} |->
                                IF k = f.name THEN DataFrameOf(f) ELSE dfs[k]]
                     w == ToSql(d, f)
                 IN IF w.raised
                    THEN [raised |-> TRUE, db |-> w.db, dataframes |-> dfs2]
                    ELSE LoadLoop(w.db, dfs2, Tail(files))

NoDataframes == [k \in {} |-> <<>>]

\* history only: every table present when an upload starts grows one upload older
Aged(d) == [i \in DOMAIN d |-> [d[i] EXCEPT !.age = IF d[i].age = 0 THEN 1 ELSE 2]]

\* lines 102-111 of step_1: get the connection, drop, load
LoadBatch(d, files) ==
    LET dr == drop_all_tables(Aged(d))
    IN IF dr.raised
       THEN [raised |-> TRUE, db |-> dr.db, dataframes |-> NoDataframes]
       ELSE LoadLoop(dr.db, NoDataframes, files)

-----------------------------------------------------------------------------
(* get_table_schemas_with_data.  The text is kept as its blocks: per table *)
(* the name of the CREATE TABLE line, the column lines in order (comma is  *)
(* whether the line still ends with its comma after rstrip) and the value  *)
(* rendered after "First Row Data: " (has = FALSE renders as None).        *)

NoRow == [has |-> FALSE, row |-> <<>>]

\* cursor.execute(f"SELECT * FROM {table_name[0]} LIMIT 1"); cursor.fetchone()
FirstRowProbe(d, n) ==
    LET id == SqlIdent(n)
    IN IF ~id.ok \/ ~HasTable(d, id.name)
       THEN [raised |-> TRUE, first |-> NoRow]
       ELSE LET t == GetTable(d, id.name)
            IN [raised |-> FALSE,
                first |-> IF t.rows = <<>> THEN NoRow
                          ELSE [has |-> TRUE, row |-> t.rows[1]]]

IsShownColumn(c) == ~IsTextType(c.type)

\* the inner loop over PRAGMA table_info, then rstrip(",\n")
ColumnLines(t) ==
    LET shown == SelectSeq(t.cols, IsShownColumn)
    IN [i \in DOMAIN shown |->
          [column |-> ReplaceSpaces(shown[i].name),
           type |-> shown[i].type,
           comma |-> i < Len(shown)]]

RECURSIVE DescribeLoop(_, _, _)
\* the loop over table_names; acc is schemas_with_data
DescribeLoop(d, i, acc) ==
    IF i > Len(d) THEN [raised |-> FALSE, blocks |-> acc]
    ELSE LET p == FirstRowProbe(d, d[i].name)
         IN IF p.raised THEN [raised |-> TRUE, blocks |-> <<>>]
            ELSE DescribeLoop(d, i + 1,
                     Append(acc, [table |-> d[i].name,
                                  lines |-> ColumnLines(d[i]),
                                  first |-> p.first]))

get_table_schemas_with_data(d) == DescribeLoop(d, 1, <<>>)

-----------------------------------------------------------------------------
(* The SQL strings the translator may return, by what SQLite does with     *)
(* them, and execute_sql_statement.                                        *)

NameA == <<"a">>
NameT == <<"t">>

SqlStatements ==
    {[op |-> "empty", table |-> <<>>],
     [op |-> "invalid", table |-> <<>>],
     [op |-> "select", table |-> NameA],
     [op |-> "select", table |-> NameT],
     [op |-> "select_where_false", table |-> NameA],
     [op |-> "drop", table |-> NameA],
     [op |-> "create", table |-> NameT]}

\* a step_2 that executes whatever the translator returned
IsTruthySqlUnchecked(q) == TRUE

\* `if sql_statement:` (an empty string or None is falsy)
IsTruthySql(q) == q.op # "empty"

CreatedTable(n) ==
    [name |-> n,
     cols |-> << [name |-> <<"c">>, type |-> TextType] >>,
     rows |-> <<>>,
     src |-> <<>>,
     age |-> 0]

\* pd.read_sql_query(sql_statement, conn): raised, the rows of the frame, and
\* the store afterwards.  A statement that returns no cursor description
\* (DROP, CREATE) takes effect before pandas fails on the missing columns.
ReadSqlQuery(d, q) ==
    CASE q.op = "select" ->
           IF HasTable(d, q.table)
           THEN [raised |-> FALSE, rows |-> GetTable(d, q.table).rows, db |-> d]
           ELSE [raised |-> TRUE, rows |-> <<>>, db |-> d]
      [] q.op = "select_where_false" ->
           [raised |-> ~HasTable(d, q.table), rows |-> <<>>, db |-> d]
      [] q.op = "drop" ->
           [raised |-> TRUE, rows |-> <<>>, db |-> WithoutTable(d, q.table)]
      [] q.op = "create" ->
           [raised |-> TRUE, rows |-> <<>>,
            db |-> IF HasTable(d, q.table) THEN d ELSE Append(d, CreatedTable(q.table))]
      [] OTHER -> [raised |-> TRUE, rows |-> <<>>, db |-> d]

\* rows_returned after the try/except of lines 78-84
RowsReturned(r) == ~r.raised /\ r.rows # <<>>

RunSqlEvent(rr) == [name |-> "Run SQL Query", value |-> IF rr THEN "True" ELSE "False"]

\* a try block without the `except Exception: pass`
EscapesWithoutExcept(r, trackOk) == r.raised \/ ~trackOk

\* whether an exception leaves execute_sql_statement: the one of read_sql_query
\* is swallowed by `except Exception: pass`, the one of mp.track, raised in the
\* finally block, is not
Escapes(r, trackOk) == ~trackOk

\* execute_sql_statement(conn, sql_statement); trackOk is whether mp.track returns
execute_sql_statement(d, q, trackOk) ==
    LET r == ReadSqlQuery(d, q)
        rr == RowsReturned(r)
    IN [db |-> r.db,
        sqlRaised |-> r.raised,
        sqlRows |-> r.rows,
        events |-> << RunSqlEvent(rr) >>,
        raised |-> Escapes(r, trackOk),
        ret |-> IF Escapes(r, trackOk) THEN "raised" ELSE IF rr THEN "df" ELSE "None"]

-----------------------------------------------------------------------------
(* Session state and the two page handlers.                                *)
(* step = 0 stands for 'step' not in st.session_state.                     *)

NewSession ==
    [step |-> 0, hasUC |-> FALSE, upload_completed |-> FALSE,
     hasConn |-> FALSE, hasDF |-> FALSE, dataframes |-> NoDataframes]

\* what one run of a handler did: the stages it called in order, the calls it
\* made to mp.track, what it showed, and whether an exception left it
NoExec == [ran |-> FALSE, sqlRaised |-> FALSE, sqlRows |-> <<>>, ret |-> "none"]

NoRun ==
    [h |-> "none", s |-> "none", raised |-> FALSE, trackFailed |-> FALSE,
     uploaded |-> FALSE, loaded |-> FALSE,
     keyed |-> FALSE, sql |-> [op |-> "empty", table |-> <<>>],
     calls |-> <<>>, events |-> <<>>, shown |-> <<>>,
     exec |-> NoExec, schema |-> <<>>]

UploadEvent(n) == [name |-> "Upload CSV files", value |-> n]

\* the guard of line 118 left out
CanAdvanceUnguarded(st) == TRUE

\* 'dataframes' in st.session_state and st.session_state['dataframes']
CanAdvance(st) == st.hasDF /\ st.dataframes # NoDataframes

\* lines 117-126 of step_1, on the session state st reached after the upload part
FinishStep1(st, button, trackOk, run) ==
    IF button \/ st.upload_completed
    THEN IF CanAdvance(st)
         THEN LET ev == << UploadEvent(Cardinality(DOMAIN st.dataframes)) >>
              IN IF trackOk
                 THEN [st |-> [st EXCEPT !.step = 2, !.upload_completed = FALSE],
                       run |-> [run EXCEPT !.events = ev]]
                 ELSE [st |-> st,
                       run |-> [run EXCEPT !.events = ev, !.raised = TRUE,
                                           !.trackFailed = TRUE]]
         ELSE [st |-> st, run |-> [run EXCEPT !.shown = <<"warning: upload a file">>]]
    ELSE [st |-> st, run |-> run]

\* ask_your_spreadsheets with step 1: lines 157-158, then step_1
Step1(s, files, button, trackOk) ==
    /\ ss[s].step \in {0, 1}
    /\ LET st0 == [ss[s] EXCEPT !.step = 1, !.hasUC = TRUE,
                                !.upload_completed = ss[s].hasUC /\ ss[s].upload_completed]
           run0 == [NoRun EXCEPT !.h = "step_1", !.s = s, !.uploaded = files # <<>>]
       IN IF files = <<>>
          THEN LET fin == FinishStep1(st0, button, trackOk, run0)
               IN /\ ss' = [ss EXCEPT ![s] = fin.st]
                  /\ last' = fin.run
                  /\ UNCHANGED <<db, lastBatch>>
          ELSE LET lb == LoadBatch(db, files)
               IN /\ db' = lb.db
                  /\ lastBatch' = files
                  /\ IF lb.raised
                     THEN /\ ss' = [ss EXCEPT ![s] = st0]
                          /\ last' = [run0 EXCEPT !.raised = TRUE]
                     ELSE LET st1 == [st0 EXCEPT !.hasConn = TRUE, !.hasDF = TRUE,
                                                 !.dataframes = lb.dataframes,
                                                 !.upload_completed = TRUE]
                              fin == FinishStep1(st1, button, trackOk,
                                                 [run0 EXCEPT !.loaded = TRUE])
                          IN /\ ss' = [ss EXCEPT ![s] = fin.st]
                             /\ last' = fin.run

\* `if not api_key` on st.session_state.get('api_key', '')
ApiKeys == {"absent", "", "sk"}

ApiKeyOf(k) == IF k = "absent" THEN "" ELSE k

HasCredential(k) == ApiKeyOf(k) # ""

\* lines 148-152: what step_2 shows for the executor's return value
ShownFor(ret) == IF ret = "df" THEN "results" ELSE "info: no results or unable to execute"

\* ask_your_spreadsheets with step 2: csv_file_viewer, then step_2 with the
\* "Ask Question" button pressed; sql is what generate_sql_statement returns
Step2(s, k, sql, trackOk) ==
    /\ ss[s].step = 2
    /\ LET run0 == [NoRun EXCEPT !.h = "step_2", !.s = s, !.keyed = HasCredential(k)]
       IN IF ~ss[s].hasDF
          THEN /\ last' = [run0 EXCEPT !.raised = TRUE]
               /\ UNCHANGED <<db, ss, lastBatch>>
          ELSE IF ~HasCredential(k)
          THEN /\ last' = [run0 EXCEPT !.shown = <<"error: missing api key">>]
               /\ UNCHANGED <<db, ss, lastBatch>>
          ELSE IF ~ss[s].hasConn
          THEN /\ last' = [run0 EXCEPT !.raised = TRUE]
               /\ UNCHANGED <<db, ss, lastBatch>>
          ELSE LET sch == get_table_schemas_with_data(db)
               IN IF sch.raised
                  THEN /\ last' = [run0 EXCEPT !.raised = TRUE, !.calls = <<"describe">>]
                       /\ UNCHANGED <<db, ss, lastBatch>>
                  ELSE LET run1 == [run0 EXCEPT !.schema = sch.blocks, !.sql = sql,
                                                !.calls = <<"describe", "translate">>]
                       IN IF ~IsTruthySql(sql)
                          THEN /\ last' = [run1 EXCEPT !.shown = <<"warning: failed to generate">>]
                               /\ UNCHANGED <<db, ss, lastBatch>>
                          ELSE LET e == execute_sql_statement(db, sql, trackOk)
                                   run2 == [run1 EXCEPT
                                              !.calls = <<"describe", "translate", "execute">>,
                                              !.events = e.events,
                                              !.exec = [ran |-> TRUE, sqlRaised |-> e.sqlRaised,
                                                        sqlRows |-> e.sqlRows, ret |-> e.ret]]
                               IN /\ db' = e.db
                                  /\ last' = IF e.raised
                                             THEN [run2 EXCEPT !.raised = TRUE,
                                                               !.trackFailed = ~trackOk]
                                             ELSE [run2 EXCEPT !.shown = <<ShownFor(e.ret)>>]
                                  /\ UNCHANGED <<ss, lastBatch>>

Init ==
    /\ db = <<>>
    /\ ss = [s \in Sessions |-> NewSession]
    /\ lastBatch = <<>>
    /\ last = NoRun

\* one session uses the page
Visitor == {"s1"}

Next ==
    \/ \E s \in Visitor, files \in Batches, button \in BOOLEAN, trackOk \in BOOLEAN :
          Step1(s, files, button, trackOk)
    \/ \E s \in Visitor, k \in ApiKeys, sql \in SqlStatements, trackOk \in BOOLEAN :
          Step2(s, k, sql, trackOk)

Spec == Init /\ [][Next]_vars

\* two sessions use the page, served by the same process
NextShared ==
    \/ \E s \in Sessions, files \in SharedBatches, button \in BOOLEAN, trackOk \in BOOLEAN :
          Step1(s, files, button, trackOk)
    \/ \E s \in Sessions, k \in ApiKeys, sql \in SqlStatements, trackOk \in BOOLEAN :
          Step2(s, k, sql, trackOk)

SpecShared == Init /\ [][NextShared]_vars

-----------------------------------------------------------------------------
(* Properties.                                                             *)

\* the store right after a run of step_1 whose load (drop, then every to_sql)
\* went through
LoadCompleted == last.h = "step_1" /\ last.loaded

\* the file names of the batch that run loaded
LoadedNames == DOMAIN ss[last.s].dataframes

\* the tables of a batch of files
TablesOfBatch(b) == {TableNameOf(b[i].name) : i \in DOMAIN b}

\* the store without its history fields
StoreView(d) == [i \in DOMAIN d |-> [name |-> d[i].name, cols |-> d[i].cols, rows |-> d[i].rows]]

\* C1: once the load of a batch B completes, the store holds no table that was
\* created from a file of the batch uploaded just before and is not a file of B.
C1_BatchReplacesPrevious ==
    LoadCompleted =>
        \A i \in DOMAIN db :
            ~(db[i].age = 1 /\ db[i].src # <<>> /\ db[i].src \notin LoadedNames)

\* C2: after step_1 has loaded a set of files the store holds exactly one table
\* per file, named by the file name up to its first ".", and the columns of the
\* table are the file's header names with every space replaced by "_".
C2_OneTablePerFile ==
    LoadCompleted =>
        /\ Len(db) = Cardinality(LoadedNames)
        /\ TableNames(db) = {TableNameOf(n) : n \in LoadedNames}
        /\ \A n \in LoadedNames :
              \E i \in DOMAIN db :
                 /\ db[i].name = TableNameOf(n)
                 /\ db[i].src = n
                 /\ Len(db[i].cols) = Len(FileByName(n).header)
                 /\ \A c \in DOMAIN db[i].cols :
                       db[i].cols[c].name = ReplaceSpaces(FileByName(n).header[c])

\* i < j are two files of the batch that derive the same table name
Collide(b, i, j) ==
    /\ i \in DOMAIN b
    /\ j \in DOMAIN b
    /\ i < j
    /\ TableNameOf(b[i].name) = TableNameOf(b[j].name)

\* the state right after step_1 handled the files of lastBatch
UploadHandled == last.h = "step_1" /\ last.uploaded

\* C3 as stated: when two files of a batch derive the same table name the load
\* completes without error and the table holds the later file's data only.
C3_LastWriteWins ==
    UploadHandled =>
        \A i, j \in DOMAIN lastBatch :
            Collide(lastBatch, i, j) =>
                /\ last.loaded
                /\ ~last.raised
                /\ \E t \in DOMAIN db :
                      /\ db[t].name = TableNameOf(lastBatch[j].name)
                      /\ db[t].src = lastBatch[j].name
                      /\ db[t].rows = lastBatch[j].rows

\* C3 as amended: when two files of a batch derive the same table name the load
\* does not complete: step_1 raises, the session stays in step 1 with its
\* 'dataframes' unchanged, and every table created by this upload under that
\* name comes from the first of the files (its columns and rows), never from
\* the later one.
C3_CollisionAborts ==
    UploadHandled =>
        \A i, j \in DOMAIN lastBatch :
            Collide(lastBatch, i, j) =>
                /\ ~last.loaded
                /\ last.raised
                /\ ss[last.s].step = 1
                /\ \A t \in DOMAIN db :
                      (db[t].age = 0 /\ db[t].name = TableNameOf(lastBatch[j].name)) =>
                          /\ db[t].src # lastBatch[j].name
                          /\ \E k \in DOMAIN lastBatch :
                                /\ k < j
                                /\ \A m \in 1..(k - 1) : ~Collide(lastBatch, m, k)
                                /\ db[t].src = lastBatch[k].name
                                /\ db[t].rows = lastBatch[k].rows
                                /\ db[t].cols = NewTable(lastBatch[k]).cols

\* C3 witness: a.csv then a.b.csv were uploaded together, the upload raised and
\* table a holds the rows of a.csv
C3_Witness ==
    /\ UploadHandled
    /\ lastBatch = <<FileA, FileAB>>
    /\ last.raised
    /\ \E t \in DOMAIN db :
          db[t].name = NameA /\ db[t].age = 0 /\ db[t].rows = FileA.rows

InfoShown == <<"info: no results or unable to execute">>

\* C4: a statement whose execution raises and a statement that returns no row
\* give the same outcome: one "Run SQL Query" event with Rows Returned False,
\* the return value None and the "No results or unable to execute" message
\* (and the same exception when the telemetry call itself raises).
C4_ErrorLooksEmpty ==
    (last.h = "step_2" /\ last.exec.ran
        /\ (last.exec.sqlRaised \/ last.exec.sqlRows = <<>>)) =>
            /\ last.events = << [name |-> "Run SQL Query", value |-> "False"] >>
            /\ IF last.trackFailed
               THEN last.raised /\ last.exec.ret = "raised" /\ last.shown = <<>>
               ELSE ~last.raised /\ last.exec.ret = "None" /\ last.shown = InfoShown

\* C4 witness: a statement SQLite rejects was executed and the page shows the
\* message of an empty result
C4_Witness ==
    /\ last.h = "step_2"
    /\ last.sql.op = "invalid"
    /\ last.exec.ran
    /\ last.exec.sqlRaised
    /\ last.exec.ret = "None"
    /\ last.shown = InfoShown

\* C5: when mp.track raises, the handler still completes: no exception leaves
\* it, execute_sql_statement returns its result or None, and step_1 moves the
\* session to step 2 and resets upload_completed.
C5_TelemetryFailureHarmless ==
    last.trackFailed =>
        /\ ~last.raised
        /\ last.h = "step_2" => last.exec.ret \in {"None", "df"}
        /\ last.h = "step_1" =>
              ss[last.s].step = 2 /\ ~ss[last.s].upload_completed

IsCall(c, name) == \E i \in DOMAIN c : c[i] = name

\* C6: in a question flow no stage runs without a credential, the stages run
\* in the order describe, translate, execute, and the executor runs (and a
\* "Run SQL Query" event is emitted) only for a non-empty translator result.
C6_StagesGuarded ==
    last.h = "step_2" =>
        /\ ~last.keyed => (last.calls = <<>> /\ last.events = <<>>)
        /\ last.calls \in {<<>>, <<"describe">>, <<"describe", "translate">>,
                           <<"describe", "translate", "execute">>}
        /\ IsCall(last.calls, "execute") <=> last.exec.ran
        /\ last.exec.ran => last.sql.op # "empty"
        /\ last.events # <<>> => last.exec.ran
        /\ (IsCall(last.calls, "translate") /\ last.sql.op = "empty") =>
              (~last.exec.ran /\ last.events = <<>>
                 /\ last.shown = <<"warning: failed to generate">>)

\* C6 witness: with a credential the translator returned nothing and the flow
\* stopped before the executor
C6_Witness ==
    /\ last.h = "step_2"
    /\ last.keyed
    /\ last.calls = <<"describe", "translate">>
    /\ last.sql.op = "empty"
    /\ last.shown = <<"warning: failed to generate">>

\* C7: at any time the tables of the store are exactly the tables of the most
\* recently uploaded batch of files.
C7_StoreIsLastBatch == TableNames(db) = TablesOfBatch(lastBatch)

\* C8: an upload in one session never changes the tables another session, which
\* is in step 2, describes and queries.
C8_StoreIsSessionScoped ==
    [][(last'.h = "step_1" /\ last'.uploaded /\ last' # last
          /\ \E s \in Sessions : s # last'.s /\ ss[s].step = 2)
        => StoreView(db') = StoreView(db)]_vars

\* the block get_table_schemas_with_data owes to table t
BlockIsRight(b, t) ==
    /\ b.table = t.name
    /\ \A c \in DOMAIN t.cols :
          Contains(Lower(t.cols[c].type), TextWord) <=>
              ~\E l \in DOMAIN b.lines :
                   b.lines[l].column = ReplaceSpaces(t.cols[c].name)
                     /\ b.lines[l].type = t.cols[c].type
    /\ Len(b.lines) = Cardinality({c \in DOMAIN t.cols :
                                     ~Contains(Lower(t.cols[c].type), TextWord)})
    /\ b.first = IF t.rows = <<>> THEN NoRow ELSE [has |-> TRUE, row |-> t.rows[1]]

\* a question flow that called get_table_schemas_with_data and did not go on
\* to change the store
Described == last.h = "step_2" /\ IsCall(last.calls, "describe") /\ ~last.exec.ran

\* C9: for every table of the store the description holds one block: a line
\* for each column whose type does not contain "text" and none for the others,
\* and the first row of that table (None when it has no row).
C9_DescribeEveryTable ==
    Described =>
        /\ ~last.raised
        /\ Len(last.schema) = Len(db)
        /\ \A i \in DOMAIN db : BlockIsRight(last.schema[i], db[i])

Step2Ready(st) == st.hasConn /\ st.hasDF /\ st.dataframes # NoDataframes

\* C10: in every reachable state a session in step 2 holds 'conn' and a
\* non-empty 'dataframes', so neither csv_file_viewer nor step_2 reads a
\* missing key (no run of step_2 ends in a KeyError).
C10_Step2HasConnAndData ==
    /\ \A s \in Sessions : ss[s].step = 2 => Step2Ready(ss[s])
    /\ (last.h = "step_2" /\ last.raised) => (last.calls # <<>> /\ last.keyed)

\* C10 witness: a session reached step 2
C10_Witness == \E s \in Sessions : ss[s].step = 2 /\ Step2Ready(ss[s])

====
